---- MODULE Spec2Model ----
(***************************************************************************)
(* Weather index builders and the nearest-observation finder of the        *)
(* weather/flight-delay joiner.                                            *)
(*                                                                         *)
(*   getWeData, findData, recurData : the original script                  *)
(*       (src/.vscode-server/data/User/History/-66ec1486/BWWu.py)          *)
(*   process_weather_file           : the packaged DataProcessor           *)
(*       (src/weather_flight_analyzer/data_processor.py)                   *)
(*                                                                         *)
(* Python lists are modelled as sequences; the integers stored in an index *)
(* and used as subscripts keep Python's 0-based values, and PyGet reads a   *)
(* list the way Python's s[i] does (negative subscripts count from the end).*)
(* A Python object is a record whose DOMAIN is the set of its attributes.   *)
(***************************************************************************)
EXTENDS Integers, Sequences, FiniteSets

VARIABLES file, wd, query, res

\* DataProcessor._create_flight_from_row: the row handed in, what it returned
VARIABLES row, created

\* main and process_monthly_data of the package: the weather directory, the
\* month file being processed and its position in the sorted file list, the
\* flights read from it, the position of the flight loop, the rows collected,
\* what each finished month left behind, and where control is
VARIABLES weatherDir, monthFile, mi, flights, fi, month_data, saved, ppc

\* the script's row loop and the matching pass nested in it: the weather
\* directory, the flights list, the rows read, where control is, the position
\* of the pass and the flight the loop variable is bound to, the window
\* (today, tomorrow and their WeData, each with the day of the file it was
\* built from), the rows written, and the findData calls of the last step
VARIABLES sdir, sflights, nread, spc, sfi, sflight,
          today, todayWeather, tomorrow, tomorrowWeather, out, calls

wxVars == <<file, wd, query, res>>

scriptVars == <<sdir, sflights, nread, spc, sfi, sflight,
                today, todayWeather, tomorrow, tomorrowWeather, out, calls>>

flightVars == <<row, created>>

pkgVars == <<weatherDir, monthFile, mi, flights, fi, month_data, saved, ppc>>

vars == <<file, wd, query, res, row, created,
          weatherDir, monthFile, mi, flights, fi, month_data, saved, ppc,
          sdir, sflights, nread, spc, sfi, sflight,
          today, todayWeather, tomorrow, tomorrowWeather, out, calls>>

-----------------------------------------------------------------------------
(* Bounds of the model *)

MaxRows == 3
MaxHour == 1
MaxMinute == 1
MaxMonth == 2
MonthLen == 2
MaxLegs == 2
MaxMonthFiles == 2
MaxMonthRows == 2
MaxScriptRows == 3

Stations == {"A", "B"}

\* one weather file covers one calendar day
Days == {1}

Times == [day : Days, hour : 0..MaxHour, minute : 0..MaxMinute]

\* a timestamp column that arrow.get cannot parse with 'YYYY-MM-DD HH:mm'
BadStamp == [day |-> 0, hour |-> 99, minute |-> 99]

\* arrow.get(all[1], 'YYYY-MM-DD HH:mm') succeeds
Parses(stamp) == stamp # BadStamp

\* a row of a weather file: column 0 (station) and column 1 (valid)
Rows == [station : Stations, time : Times \cup {BadStamp}]

\* arrow's ordering of two timestamps
TimeKey(t) == (t.day * 24 + t.hour) * 60 + t.minute

\* the well-formed rows of a file are in time order
IsSorted(rows) ==
    \A i \in 1..Len(rows) : \A j \in (i + 1)..Len(rows) :
        (Parses(rows[i].time) /\ Parses(rows[j].time)) =>
            TimeKey(rows[i].time) <= TimeKey(rows[j].time)

\* the day of the widening scenario: one station, one report, at 00:10
At(m) == [day |-> 1, hour |-> 0, minute |-> m]

WideningFile == << [station |-> "A", time |-> At(10)] >>

Files ==
    {f \in UNION {[1..n -> Rows] : n \in 0..MaxRows} : IsSorted(f)}
        \cup {WideningFile}

QueryTimes == Times \cup {At(3), At(15)}

-----------------------------------------------------------------------------
(* Python list access *)

PyInRange(s, i) == (0 - Len(s)) <= i /\ i < Len(s)

PyGet(s, i) == IF i >= 0 THEN s[i + 1] ELSE s[Len(s) + i + 1]

HasAttr(obj, a) == a \in DOMAIN obj

-----------------------------------------------------------------------------
(* Objects *)

\* mutant of oneWe: the class also offers date(), delegating to its time
oneWe_withDate(all) ==
    [all |-> all, station |-> all.station, time |-> all.time,
     date |-> [day |-> all.time.day]]

oneWe(all) ==
    [all |-> all, station |-> all.station, time |-> all.time]

WeatherObservation_from_raw(data) ==
    [station |-> data.station, time |-> data.time, raw_data |-> data]

NoWD == [status |-> "none", builder |-> "none", data |-> <<>>, index |-> <<>>]

WeData(data, index) ==
    [status |-> "ok", builder |-> "getWeData", data |-> data, index |-> index]

WeatherData(data, time_index) ==
    [status |-> "ok", builder |-> "process_weather_file",
     data |-> data, index |-> time_index]

Raised(builder, exc) ==
    [status |-> exc, builder |-> builder, data |-> <<>>, index |-> <<>>]

-----------------------------------------------------------------------------
(* Index builders *)

RECURSIVE getWeDataLoop(_, _, _, _)
getWeDataLoop(rest, allWe, timeIndex, i) ==
    IF rest = <<>> THEN WeData(allWe, timeIndex)
    ELSE IF ~Parses(Head(rest).time) THEN Raised("getWeData", "ParserError")
    ELSE LET new == oneWe(Head(rest)) IN
         getWeDataLoop(Tail(rest),
                       Append(allWe, new),
                       IF new.time # PyGet(allWe, Len(allWe) - 1).time
                           THEN Append(timeIndex, i + 1)
                           ELSE timeIndex,
                       i + 1)

\* next(reader) on a file without rows raises StopIteration
getWeData(rows) ==
    IF rows = <<>> THEN Raised("getWeData", "StopIteration")
    ELSE IF ~Parses(Head(rows).time) THEN Raised("getWeData", "ParserError")
    ELSE getWeDataLoop(Tail(rows), <<oneWe(Head(rows))>>, <<0>>, 0)

NoTime == [day |-> 0, hour |-> 0, minute |-> 0]

\* mutant of process_weather_file_loop: a record that does not parse ends
\* the loop and the observations read so far are returned
RECURSIVE process_weather_file_loop_partial(_, _, _, _, _)
process_weather_file_loop_partial(rest, observations, time_index, current_time, i) ==
    IF rest = <<>> \/ ~Parses(Head(rest).time)
        THEN WeatherData(observations, time_index)
    ELSE LET obs == WeatherObservation_from_raw(Head(rest)) IN
         process_weather_file_loop_partial(
             Tail(rest),
             Append(observations, obs),
             IF current_time # obs.time THEN Append(time_index, i) ELSE time_index,
             obs.time,
             i + 1)

\* from_raw raises arrow's ParserError; only FileNotFoundError is handled
RECURSIVE process_weather_file_loop(_, _, _, _, _)
process_weather_file_loop(rest, observations, time_index, current_time, i) ==
    IF rest = <<>> THEN WeatherData(observations, time_index)
    ELSE IF ~Parses(Head(rest).time)
        THEN Raised("process_weather_file", "ParserError")
    ELSE LET obs == WeatherObservation_from_raw(Head(rest)) IN
         process_weather_file_loop(
             Tail(rest),
             Append(observations, obs),
             IF current_time # obs.time THEN Append(time_index, i) ELSE time_index,
             obs.time,
             i + 1)

process_weather_file(rows) ==
    process_weather_file_loop(rows, <<>>, <<0>>, NoTime, 0)

-----------------------------------------------------------------------------
(* Nearest-observation finder *)

NoRes == [kind |-> "none", pos |-> 0 - 1, exc |-> "", probes |-> <<>>]

Found(pos, min) == [kind |-> "obs", pos |-> pos, exc |-> "", probes |-> <<min>>]

NotFound(min) == [kind |-> "NotFound", pos |-> 0 - 1, exc |-> "", probes |-> <<min>>]

Raise(exc, min) == [kind |-> "raise", pos |-> 0 - 1, exc |-> exc, probes |-> <<min>>]

\* the while loop of recurData, lines 51-54, from position index
RECURSIVE Scan(_, _, _)
Scan(allWe, index, place) ==
    IF ~PyInRange(allWe, index) THEN [kind |-> "except", exc |-> "IndexError", pos |-> index]
    ELSE IF ~HasAttr(PyGet(allWe, index), "date")
        THEN [kind |-> "except", exc |-> "AttributeError", pos |-> index]
    ELSE IF ~PyInRange(allWe, index - 1)
        THEN [kind |-> "except", exc |-> "IndexError", pos |-> index]
    ELSE IF PyGet(allWe, index).date.day # PyGet(allWe, index - 1).date.day
        THEN [kind |-> "fallthrough", exc |-> "", pos |-> index]
    ELSE IF PyGet(allWe, index).station = place
        THEN [kind |-> "return", exc |-> "", pos |-> index]
    ELSE Scan(allWe, index + 1, place)

\* the try block of recurData, lines 49-54
TryBlock(min, allWe, timeIndex, place) ==
    IF ~PyInRange(timeIndex, min)
        THEN [kind |-> "except", exc |-> "IndexError", pos |-> 0 - 1]
        ELSE Scan(allWe, PyGet(timeIndex, min), place)

\* mutant of Caught: except IndexError instead of a bare except
Caught_IndexErrorOnly(exc) == exc = "IndexError"

\* the bare except of line 55 catches every exception
Caught(exc) == TRUE

\* lines 59-62: the offset of the next step, from 0: +1, -1, +2, -2, ...
NextOffset(offset) ==
    IF offset > 0 THEN offset * (0 - 1) ELSE offset * (0 - 1) + 1

\* line 63 calls the five-parameter recurData with four arguments
Line63(min, offset) == Raise("TypeError", min)

\* mutant of recurData: except: pass instead of except: return 0
recurData_exceptPass(min, allWe, timeIndex, offset, place) ==
    LET t == TryBlock(min, allWe, timeIndex, place) IN
    IF t.kind = "return" THEN Found(t.pos, min)
    ELSE IF t.kind = "except" /\ ~Caught(t.exc) THEN Raise(t.exc, min)
    ELSE IF min = 0 THEN NotFound(min)
    ELSE Line63(min, NextOffset(offset))

recurData(min, allWe, timeIndex, offset, place) ==
    LET t == TryBlock(min, allWe, timeIndex, place) IN
    IF t.kind = "return" THEN Found(t.pos, min)
    ELSE IF t.kind = "except"
        THEN IF Caught(t.exc) THEN NotFound(min) ELSE Raise(t.exc, min)
    ELSE IF min = 0 THEN NotFound(min)
    ELSE Line63(min, NextOffset(offset))

\* minute-of-day of an instant, line 44
MinuteOfDay(t) == t.hour * 60 + t.minute

\* mutant of findData: the target minute is computed one too low
findData_minusOne(place, inTime, allWe, timeIndex) ==
    recurData(MinuteOfDay(inTime) - 1, allWe, timeIndex, 0, place)

findData(place, inTime, allWe, timeIndex) ==
    recurData(MinuteOfDay(inTime), allWe, timeIndex, 0, place)

-----------------------------------------------------------------------------
(* Calendar: instants of flight events *)

\* calendar dates; a month of the model has MonthLen days
Dates == [month : 1..MaxMonth, day : 1..MonthLen]

\* arrow's shift(days=1) on a date
NextDate(d) ==
    IF d.day < MonthLen THEN [month |-> d.month, day |-> d.day + 1]
    ELSE [month |-> d.month + 1, day |-> 1]

DateOf(t) == [month |-> t.month, day |-> t.day]

DateOrd(d) == (d.month - 1) * MonthLen + d.day

\* arrow's ordering of two instants
InstKey(t) == (DateOrd(DateOf(t)) * 24 + t.hour) * 60 + t.minute

\* arrow's shift(days=1) on an instant
ShiftDay(t) ==
    [month |-> NextDate(DateOf(t)).month, day |-> NextDate(DateOf(t)).day,
     hour |-> t.hour, minute |-> t.minute]

NoInstant == [month |-> 0, day |-> 0, hour |-> 0, minute |-> 0]

-----------------------------------------------------------------------------
(* DataProcessor: flight rows *)

\* a blank cell of the flight CSV, as pandas reads it
NaN == 0 - 1

NaNText == "NaN"

\* pd.isna on a text cell and on a numeric cell
isna_text(v) == v = NaNText

isna_number(v) == v = NaN

\* the airport codes of the timezone table
airport_timezones == {"A", "B", "C"}

\* clock columns (CRSDepTime, CRSArrTime, DivNWheelsOn, DivNWheelsOff):
\* clocks of the day, minute 60, hour 24, a negative number, a blank
Clocks == {30, 100, 2330, 2360, 2400, 0 - 100, NaN}

\* "X" is an airport code the timezone table does not hold
Origins == {"A", "X"}

Dests == {"B", "X"}

BlankLeg == [airport |-> NaNText, wheels_on |-> NaN, wheels_off |-> NaN]

\* the columns DivNAirport, DivNWheelsOn, DivNWheelsOff of one leg
LegChoices ==
    { BlankLeg,
      [airport |-> "C", wheels_on |-> 100, wheels_off |-> 2330],
      [airport |-> "X", wheels_on |-> 100, wheels_off |-> 2330],
      [airport |-> "C", wheels_on |-> NaN, wheels_off |-> 2330],
      [airport |-> "C", wheels_on |-> 100, wheels_off |-> 2360] }

\* the five leg column groups of a row: the first MaxLegs are free
LegColumns ==
    {l \in [1..5 -> LegChoices] : \A i \in (MaxLegs + 1)..5 : l[i] = BlankLeg}

FlightRows ==
    [Origin : Origins, Dest : Dests, FlightDate : Dates,
     CRSDepTime : Clocks \ {30, 2360}, CRSArrTime : Clocks \ {100},
     DivAirportLandings : 0..MaxLegs, Div : LegColumns]

Leg(airport, wheels_on, wheels_off) ==
    [airport |-> airport, wheels_on |-> wheels_on, wheels_off |-> wheels_off]

\* rows with all five leg column groups in use: five legs that differ from
\* one another, and the same with the second leg blank and the fourth at an
\* unknown airport and the fifth landing at hour 24; DivAirportLandings is
\* 5, or 9 as in the BTS files, or blank
ManyLegColumns ==
    { << Leg("A", 30, 100), Leg("B", 30, 2330), Leg("C", 100, 2330),
         Leg("A", 100, 2330), Leg("B", 2330, 30) >>,
      << Leg("A", 30, 100), BlankLeg, Leg("C", 100, 2330),
         Leg("X", 100, 2330), Leg("B", 2400, 30) >> }

ManyLegRows ==
    [Origin : {"A"}, Dest : {"B"}, FlightDate : Dates,
     CRSDepTime : {100}, CRSArrTime : {2330},
     DivAirportLandings : {5, 9, NaN}, Div : ManyLegColumns]

\* mutant of convert_to_utc: the membership test is left out
convert_to_utc_unchecked(airport, time) == [exc |-> "", time |-> time]

\* time.to('UTC') on the instant arrow.get built, which is in UTC already:
\* the zone looked up on line 98 is not used
convert_to_utc(airport, time) ==
    IF airport \notin airport_timezones
        THEN [exc |-> "ValueError", time |-> NoInstant]
        ELSE [exc |-> "", time |-> time]

\* int(time) of a blank cell raises ValueError
IntRaises(time) == time = NaN

\* str(int(time)).zfill(4) read back by arrow.get(..., 'YYYY-MM-DDHHmm'):
\* the first two digits are the hour, the last two the minute. The text of a
\* negative number starts with '-' and does not match the format. setup.py
\* names no version of arrow; the arrow of today (1.x) reads hour 24 with
\* minute 00 as midnight at the end of the day, and no other hour 24.
ClockParses(time) ==
    /\ time >= 0
    /\ \/ time \div 100 <= 23 /\ time % 100 <= 59
       \/ time = 2400

\* the instant arrow.get builds from the date and a clock that parses
ParseClock(date, time) ==
    IF time = 2400
        THEN [month |-> NextDate(date).month, day |-> NextDate(date).day,
              hour |-> 0, minute |-> 0]
        ELSE [month |-> date.month, day |-> date.day,
              hour |-> time \div 100, minute |-> time % 100]

Diversion(airport, arrival_time, departure_time) ==
    [airport |-> airport, arrival_time |-> arrival_time,
     departure_time |-> departure_time]

\* one pass of the loop body of _process_diversions: <<>> when the leg is
\* skipped, else the Diversion appended
DiversionOfLeg(date, leg) ==
    IF isna_text(leg.airport) THEN <<>>
    ELSE IF isna_number(leg.wheels_on) \/ isna_number(leg.wheels_off) THEN <<>>
    ELSE IF ~ClockParses(leg.wheels_on) \/ ~ClockParses(leg.wheels_off) THEN <<>>
    ELSE LET arr == convert_to_utc(leg.airport, ParseClock(date, leg.wheels_on))
             dep == convert_to_utc(leg.airport, ParseClock(date, leg.wheels_off))
         IN IF arr.exc # "" \/ dep.exc # "" THEN <<>>
            ELSE << Diversion(leg.airport,
                              IF InstKey(arr.time) < InstKey(dep.time)
                                  THEN ShiftDay(arr.time) ELSE arr.time,
                              dep.time) >>

Min(a, b) == IF a <= b THEN a ELSE b

\* mutant of DiversionLoop: each Diversion is put in front of the list
RECURSIVE DiversionLoop_prepend(_, _, _, _)
DiversionLoop_prepend(r, i, stop, diversions) ==
    IF i >= stop THEN diversions
    ELSE DiversionLoop_prepend(r, i + 1, stop,
                               DiversionOfLeg(r.FlightDate, r.Div[i]) \o diversions)

RECURSIVE DiversionLoop(_, _, _, _)
DiversionLoop(r, i, stop, diversions) ==
    IF i >= stop THEN diversions
    ELSE DiversionLoop(r, i + 1, stop,
                       diversions \o DiversionOfLeg(r.FlightDate, r.Div[i]))

\* line 269, int(row['DivAirportLandings']), is outside the try of the loop
\* body: the ValueError of a blank cell leaves the function
_process_diversions(r) ==
    IF IntRaises(r.DivAirportLandings)
        THEN [exc |-> "ValueError", diversions |-> <<>>]
        ELSE [exc |-> "",
              diversions |-> DiversionLoop(r, 1, Min(r.DivAirportLandings + 1, 6), <<>>)]

NoFlight ==
    [kind |-> "None", origin |-> "", destination |-> "",
     departure_time |-> NoInstant, arrival_time |-> NoInstant,
     raw_data |-> <<>>,
     num_diversions |-> 0, diversions |-> <<>>, useable |-> FALSE]

Flight(origin, destination, departure_time, arrival_time, raw_data, num_diversions, diversions) ==
    [kind |-> "Flight", origin |-> origin, destination |-> destination,
     departure_time |-> departure_time, arrival_time |-> arrival_time,
     raw_data |-> raw_data,
     num_diversions |-> num_diversions, diversions |-> diversions,
     useable |-> TRUE]

\* mutant of ArrivalAfter: the shifted instant is thrown away
ArrivalAfter_discarded(dep, arr) == arr

\* lines 210-211: the arrival crosses midnight
ArrivalAfter(dep, arr) ==
    IF InstKey(arr) < InstKey(dep) THEN ShiftDay(arr) ELSE arr

\* every ValueError raised inside the try ends in return None
_create_flight_from_row(r) ==
    IF IntRaises(r.CRSDepTime) \/ ~ClockParses(r.CRSDepTime) THEN NoFlight
    ELSE LET dep == convert_to_utc(r.Origin, ParseClock(r.FlightDate, r.CRSDepTime)) IN
    IF dep.exc # "" THEN NoFlight
    ELSE IF IntRaises(r.CRSArrTime) \/ ~ClockParses(r.CRSArrTime) THEN NoFlight
    ELSE LET arr == convert_to_utc(r.Dest, ParseClock(r.FlightDate, r.CRSArrTime)) IN
    IF arr.exc # "" THEN NoFlight
    ELSE LET diversions == _process_diversions(r) IN
    IF diversions.exc # "" THEN NoFlight
    ELSE Flight(r.Origin, r.Dest, dep.time, ArrivalAfter(dep.time, arr.time),
                <<r>>, r.DivAirportLandings, diversions.diversions)

-----------------------------------------------------------------------------
(* main and process_monthly_data *)

\* the days the flights of the month files depart on
BatchDates == {d \in Dates : d.month = 1}

NoLegs == [i \in 1..5 |-> BlankLeg]

\* a row of a month file: the columns _create_flight_from_row reads, the
\* Duplicate column and the flight number (column 10)
BatchRow(origin, date, dup) ==
    [Origin |-> origin, Dest |-> "B", FlightDate |-> date,
     CRSDepTime |-> 100, CRSArrTime |-> 2330,
     DivAirportLandings |-> 0, Div |-> NoLegs,
     Duplicate |-> dup, Flight_Number_Marketing_Airline |-> 7]

\* "C" is in the timezone table and reports no weather; "X" is in neither
BatchRows ==
    {BatchRow(o, d, "N") : o \in {"A", "C"}, d \in BatchDates}
        \cup {BatchRow("X", d, "N") : d \in {dd \in BatchDates : dd.day = 1}}
        \cup {BatchRow("A", d, "Y") : d \in {dd \in BatchDates : dd.day = 1}}

MonthFiles == UNION {[1..n -> BatchRows] : n \in 0..MaxMonthRows}

\* what the weather directory holds for a day
WeatherKinds == {"missing", "ok", "malformed"}

WeatherDirs == [BatchDates -> WeatherKinds]

Stamp(date, h, m) == [day |-> date.day, hour |-> h, minute |-> m]

\* the rows of the weather file of a day: stations A and B report at 01:00
\* and 23:30; a malformed file has a record whose timestamp does not parse
WeatherRows(kind, date) ==
    IF kind = "malformed"
        THEN << [station |-> "A", time |-> Stamp(date, 1, 0)],
                [station |-> "B", time |-> BadStamp] >>
        ELSE << [station |-> "A", time |-> Stamp(date, 1, 0)],
                [station |-> "B", time |-> Stamp(date, 1, 0)],
                [station |-> "A", time |-> Stamp(date, 23, 30)],
                [station |-> "B", time |-> Stamp(date, 23, 30)] >>

\* process_weather_file on the path of a day: open() of a missing file
\* raises FileNotFoundError, which lines 141-142 raise again
process_weather_path(dir, date) ==
    IF date \notin DOMAIN dir \/ dir[date] = "missing"
        THEN Raised("process_weather_file", "FileNotFoundError")
        ELSE process_weather_file(WeatherRows(dir[date], date))

\* process_flight_data: rows marked Duplicate = "Y" are removed, every
\* other row goes through _create_flight_from_row, None is left out
RECURSIVE process_flight_data(_)
process_flight_data(rows) ==
    IF rows = <<>> THEN <<>>
    ELSE LET flight == _create_flight_from_row(Head(rows)) IN
         (IF Head(rows).Duplicate # "Y" /\ flight.kind = "Flight"
              THEN <<flight>> ELSE <<>>)
             \o process_flight_data(Tail(rows))

\* the dict appended to month_data, lines 121-129: columns taken from the
\* flight, and the weather observations joined to it (none)
MonthRow(flight) ==
    [flight_number |-> flight.raw_data[1].Flight_Number_Marketing_Airline,
     origin |-> flight.origin,
     destination |-> flight.destination,
     departure_time |-> flight.departure_time,
     arrival_time |-> flight.arrival_time,
     num_diversions |-> flight.num_diversions,
     weather |-> <<>>]

\* what a finished month left in the output directory
Saved(rows) == [status |-> "saved", rows |-> rows]

NothingSaved == [status |-> "nothing", rows |-> <<>>]

Aborted(exc) == [status |-> exc, rows |-> <<>>]

-----------------------------------------------------------------------------
(* The script: rows of the month file and the matching pass *)

\* the airports of AirportTZ.csv in file order
AirportTZ == <<"C", "A", "B", "D">>

\* toUTC, lines 66-78: ret is assigned in the loop body, before the airport
\* is compared with the next pair, so the first airport of the file leaves
\* ret unbound; for every other airport ret is the clock read in the zone
\* named '' (the zone of the machine, UTC here) whatever the airport
toUTC(airport, time) ==
    IF AirportTZ = <<>> \/ airport = AirportTZ[1]
        THEN [exc |-> "UnboundLocalError", time |-> NoInstant]
        ELSE [exc |-> "", time |-> time]

Diver(port, arr, dep) == [port |-> port, arr |-> arr, dep |-> dep]

OneFlight(orig, dest, depT, arrT, all, numDiv, divList) ==
    [orig |-> orig, dest |-> dest, depT |-> depT, arrT |-> arrT,
     all |-> all, useable |-> TRUE, divs |-> divList, numDiv |-> numDiv]

\* a clock cell of the month file as the script reads it: the number of
\* characters of the text and the number its digits spell ("100" is
\* Cell(3, 100), "0100" is Cell(4, 100), the empty cell is Cell(0, 0))
Cell(len, value) == [len |-> len, value |-> value]

\* the columns DivNAirport, DivNAirportID, DivNWheelsOn, DivNWheelsOff
ScriptLeg(airport, airport_id, wheels_on, wheels_off) ==
    [airport |-> airport, airport_id |-> airport_id,
     wheels_on |-> wheels_on, wheels_off |-> wheels_off]

NoScriptLeg == ScriptLeg("", "", Cell(0, 0), Cell(0, 0))

\* the diversion leg of the script's rows, and one whose wheels-on cell is
\* written without its leading zero
LegD == ScriptLeg("D", "10003", Cell(4, 1200), Cell(4, 1300))

LegShort == ScriptLeg("D", "10003", Cell(3, 100), Cell(4, 1300))

\* a row of csvreader2: the columns the row loop reads
ScriptRow(origin, date, deptime, legs, dup) ==
    [Origin |-> origin, Dest |-> "B", FlightDate |-> date,
     CRSDepTime |-> deptime, CRSArrTime |-> Cell(4, 2330),
     DivAirportLandings |-> Len(legs),
     Div |-> [i \in 1..5 |-> IF i <= Len(legs) THEN legs[i] ELSE NoScriptLeg],
     Duplicate |-> dup]

NoScriptRow == ScriptRow("", [month |-> 0, day |-> 0], Cell(0, 0), <<>>, "")

\* nothing is appended to flights for the row
NotAppended ==
    [OneFlight("", "", NoInstant, NoInstant, NoScriptRow, 0, <<>>)
        EXCEPT !.useable = FALSE]

FirstDates == {d \in Dates : DateOrd(d) = 1}

\* rows of the month file: a flight on each day; on the first day a flight
\* with one diversion, one with three, one whose second leg has a short
\* wheels-on cell, one with an empty CRSDepTime cell, one with a CRSDepTime
\* cell of 5 characters, one that departs at hour 24, a row the Duplicate
\* test of line 147 leaves out, and a row whose origin is the first airport
\* of AirportTZ.csv
ScriptRows ==
    {ScriptRow("A", d, Cell(3, 100), <<>>, "N") : d \in Dates}
        \cup {ScriptRow("A", d, Cell(3, 100), <<LegD>>, "N") : d \in FirstDates}
        \cup {ScriptRow("A", d, Cell(3, 100), <<LegD, LegD, LegD>>, "N") : d \in FirstDates}
        \cup {ScriptRow("A", d, Cell(3, 100), <<LegD, LegShort>>, "N") : d \in FirstDates}
        \cup {ScriptRow("A", d, Cell(0, 0), <<>>, "N") : d \in FirstDates}
        \cup {ScriptRow("A", d, Cell(5, 12345), <<>>, "N") : d \in FirstDates}
        \cup {ScriptRow("A", d, Cell(4, 2400), <<>>, "N") : d \in FirstDates}
        \cup {ScriptRow("A", d, Cell(3, 100), <<>>, "Y") : d \in FirstDates}
        \cup {ScriptRow("C", d, Cell(3, 100), <<>>, "N") : d \in FirstDates}

\* lines 154-157: a zero is put in front of the cell while it has not 4
\* characters; a cell of more than 4 only grows and the loop does not end
Pad(cell) ==
    IF cell.len > 4 THEN [ends |-> FALSE, cell |-> cell]
    ELSE [ends |-> TRUE, cell |-> Cell(4, cell.value)]

\* lines 180-183: a cell of leg 1 with fewer than 4 characters is replaced
\* by '0' and the padded CRSDepTime (CRSArrTime for wheels-off), 5 characters
PadLeg1(cell, crs) == IF cell.len < 4 THEN Cell(5, crs.value) ELSE cell

\* lines 197-200 (214-217, 231-234, 248-251): for a cell of legs 2 to 5
\* that has not 4 characters the while loop assigns the same 5 characters
\* on every pass and does not end
NeverEnds(cell) == cell.len # 4

\* arrow.get(row[5] + text, 'YYYY-MM-DDhhmm')
CellParses(cell) == cell.len = 4 /\ ClockParses(cell.value)

\* the airport column divport is read from: row[78], row[86], row[95]
\* (Div3AirportID), row[102], row[110]
DivPort(leg, i) == IF i = 3 THEN leg.airport_id ELSE leg.airport

\* lines 176-260: the legs 1..numDiv; the result of shift(days=1) is dropped
RECURSIVE ScriptLegs(_, _, _)
ScriptLegs(r, i, divList) ==
    IF i > Min(r.DivAirportLandings, 5) THEN [exc |-> "", divList |-> divList]
    ELSE IF i > 1 /\ (NeverEnds(r.Div[i].wheels_on) \/ NeverEnds(r.Div[i].wheels_off))
        THEN [exc |-> "NeverEnds", divList |-> divList]
    ELSE LET on == IF i = 1 THEN PadLeg1(r.Div[i].wheels_on, Pad(r.CRSDepTime).cell)
                            ELSE r.Div[i].wheels_on
             off == IF i = 1 THEN PadLeg1(r.Div[i].wheels_off, Pad(r.CRSArrTime).cell)
                             ELSE r.Div[i].wheels_off
             divport == DivPort(r.Div[i], i)
             divarr == toUTC(divport, ParseClock(r.FlightDate, on.value))
             divdep == toUTC(divport, ParseClock(r.FlightDate, off.value))
         IN IF ~CellParses(on) \/ ~CellParses(off)
                THEN [exc |-> "ParserError", divList |-> divList]
            ELSE IF divarr.exc # "" THEN [exc |-> divarr.exc, divList |-> divList]
            ELSE IF divdep.exc # "" THEN [exc |-> divdep.exc, divList |-> divList]
            ELSE ScriptLegs(r, i + 1,
                     Append(divList, Diver(divport, divarr.time, divdep.time)))

\* the body of the row loop did not append a flight: exc tells why
Left(exc) == [exc |-> exc, new |-> NotAppended]

\* lines 147-266: the OneFlight appended for a row (exc is ""), or why none
\* is: the row is left out (Duplicate is not 'N'), the bare except of line
\* 266 is taken (quit() of lines 162 and 167 raises SystemExit inside that
\* try as well), or a while loop of the body does not end
ScriptFlight(r) ==
    IF r.Duplicate # "N" THEN Left("continue")
    ELSE IF ~Pad(r.CRSDepTime).ends \/ ~Pad(r.CRSArrTime).ends
        THEN Left("NeverEnds")
    ELSE IF ~CellParses(Pad(r.CRSDepTime).cell) \/ ~CellParses(Pad(r.CRSArrTime).cell)
        THEN Left("SystemExit")
    ELSE LET dep == toUTC(r.Origin, ParseClock(r.FlightDate, Pad(r.CRSDepTime).cell.value))
             arr == toUTC(r.Dest, ParseClock(r.FlightDate, Pad(r.CRSArrTime).cell.value))
             legs == ScriptLegs(r, 1, <<>>)
         IN IF dep.exc # "" THEN Left(dep.exc)
            ELSE IF arr.exc # "" THEN Left(arr.exc)
            ELSE IF legs.exc # "" THEN Left(legs.exc)
            ELSE [exc |-> "",
                  new |-> OneFlight(r.Origin, r.Dest, dep.time, arr.time, r,
                                    r.DivAirportLandings, legs.divList)]

\* what the script's weather directory holds for a day
ScriptDirs == [Dates -> {"ok", "missing"}]

\* a WeData of the window and the day of the file it was built from
Snapshot(date, we) == [date |-> date, we |-> we]

NoSnapshot == Snapshot([month |-> 0, day |-> 0], NoWD)

\* getWeData(formatDate(t), writer): a file that does not open ends the run
\* by quit(), lines 82-86
getWeDataOf(dir, t) ==
    Snapshot(DateOf(t),
             IF DateOf(t) \notin DOMAIN dir \/ dir[DateOf(t)] = "missing"
                 THEN Raised("getWeData", "SystemExit")
                 ELSE getWeData(WeatherRows(dir[DateOf(t)], DateOf(t))))

\* a findData call of the matching pass: the event, the station and instant
\* passed, the day of the WeData passed, and what findData gave back
Lookup(event, station, instant, snapshot) ==
    [event |-> event, station |-> station, instant |-> instant,
     snapshot |-> snapshot.date,
     res |-> findData(station, instant, snapshot.we.data, snapshot.we.index)]

\* the observation a findData result stands for
ObsOf(lookup, snapshot) == PyGet(snapshot.we.data, lookup.res.pos)

\* one findData call of the diversion loop, lines 374-381: the tomorrow
\* branch passes div.port, the today branch reads flight.port, an attribute
\* OneFlight does not have
DivLookup(event, flight, div, t, t0, todayW, tomorrowW) ==
    IF t.day # t0.day
        THEN [exc |-> "", call |-> Lookup(event, div.port, t, tomorrowW),
              snapshot |-> tomorrowW]
    ELSE IF HasAttr(flight, "port")
        THEN [exc |-> "", call |-> Lookup(event, flight.port, t, todayW),
              snapshot |-> todayW]
    ELSE [exc |-> "AttributeError",
          call |-> Lookup(event, "", t, todayW), snapshot |-> todayW]

\* the while loop of lines 372-383; .all of a result that is 0 raises
RECURSIVE DivLoop(_, _, _, _, _, _, _)
DivLoop(flight, divloaded, t0, todayW, tomorrowW, fullLine, made) ==
    IF divloaded >= flight.numDiv
        THEN [exc |-> "", fullLine |-> fullLine, calls |-> made]
    ELSE IF ~PyInRange(flight.divs, divloaded)
        THEN [exc |-> "IndexError", fullLine |-> fullLine, calls |-> made]
    ELSE LET div == PyGet(flight.divs, divloaded)
             a == DivLookup("divarr", flight, div, div.arr, t0, todayW, tomorrowW)
             d == DivLookup("divdep", flight, div, div.dep, t0, todayW, tomorrowW)
         IN IF a.exc # ""
                THEN [exc |-> a.exc, fullLine |-> fullLine, calls |-> made]
            ELSE IF a.call.res.kind = "raise"
                THEN [exc |-> a.call.res.exc, fullLine |-> fullLine,
                      calls |-> made \cup {a.call}]
            ELSE IF d.exc # ""
                THEN [exc |-> d.exc, fullLine |-> fullLine,
                      calls |-> made \cup {a.call}]
            ELSE IF d.call.res.kind = "raise"
                THEN [exc |-> d.call.res.exc, fullLine |-> fullLine,
                      calls |-> made \cup {a.call, d.call}]
            ELSE IF a.call.res.kind # "obs" \/ d.call.res.kind # "obs"
                THEN [exc |-> "AttributeError", fullLine |-> fullLine,
                      calls |-> made \cup {a.call, d.call}]
            ELSE DivLoop(flight, divloaded + 1, t0, todayW, tomorrowW,
                         fullLine \o << ObsOf(a.call, a.snapshot).all,
                                        ObsOf(d.call, d.snapshot).all >>,
                         made \cup {a.call, d.call})

\* rows of the output file
HeaderRow == [kind |-> "header", flight |-> NoScriptRow, weather |-> <<>>]

DataRow(all, weather) == [kind |-> "row", flight |-> all, weather |-> weather]

-----------------------------------------------------------------------------
(* The state machine *)

NoQuery == [place |-> "", inTime |-> NoTime]

NoRow ==
    [Origin |-> "", Dest |-> "", FlightDate |-> [month |-> 0, day |-> 0],
     CRSDepTime |-> NaN, CRSArrTime |-> NaN, DivAirportLandings |-> 0,
     Div |-> [i \in 1..5 |-> BlankLeg]]

NotCreated == [NoFlight EXCEPT !.kind = "none"]

WxIdle == file = <<>> /\ wd = NoWD /\ query = NoQuery /\ res = NoRes

FlightIdle == row = NoRow /\ created = NotCreated

PkgIdle ==
    /\ weatherDir = [d \in BatchDates |-> "missing"]
    /\ monthFile = <<>>
    /\ mi = 0
    /\ flights = <<>>
    /\ fi = 0
    /\ month_data = <<>>
    /\ saved = <<>>
    /\ ppc = "idle"

ScriptIdle ==
    /\ sdir = [d \in Dates |-> "missing"]
    /\ sflights = <<>>
    /\ nread = 0
    /\ spc = "idle"
    /\ sfi = 0
    /\ sflight = NotAppended
    /\ today = NoInstant
    /\ todayWeather = NoSnapshot
    /\ tomorrow = NoInstant
    /\ tomorrowWeather = NoSnapshot
    /\ out = <<>>
    /\ calls = {}

Init ==
    /\ file \in Files
    /\ wd = NoWD
    /\ query = NoQuery
    /\ res = NoRes
    /\ FlightIdle
    /\ PkgIdle
    /\ ScriptIdle

GetWeData ==
    /\ wd.status = "none"
    /\ wd' = getWeData(file)
    /\ UNCHANGED <<file, query, res>>
    /\ UNCHANGED flightVars
    /\ UNCHANGED pkgVars
    /\ UNCHANGED scriptVars

ProcessWeatherFile ==
    /\ wd.status = "none"
    /\ wd' = process_weather_file(file)
    /\ UNCHANGED <<file, query, res>>
    /\ UNCHANGED flightVars
    /\ UNCHANGED pkgVars
    /\ UNCHANGED scriptVars

\* the script's lookups, lines 361-381: findData on a getWeData snapshot
FindData ==
    /\ wd.status = "ok"
    /\ wd.builder = "getWeData"
    /\ \E place \in Stations, inTime \in QueryTimes :
          /\ query' = [place |-> place, inTime |-> inTime]
          /\ res' = findData(place, inTime, wd.data, wd.index)
    /\ UNCHANGED <<file, wd>>
    /\ UNCHANGED flightVars
    /\ UNCHANGED pkgVars
    /\ UNCHANGED scriptVars

Next == GetWeData \/ ProcessWeatherFile \/ FindData

Spec == Init /\ [][Next]_vars

\* _create_flight_from_row applied to the rows of a flight file
FlightInit == WxIdle /\ FlightIdle /\ PkgIdle /\ ScriptIdle

CreateFlight ==
    /\ created.kind = "none"
    /\ \E r \in FlightRows \cup ManyLegRows :
          /\ row' = r
          /\ created' = _create_flight_from_row(r)
    /\ UNCHANGED wxVars
    /\ UNCHANGED pkgVars
    /\ UNCHANGED scriptVars

FlightNext == CreateFlight

FlightSpec == FlightInit /\ [][FlightNext]_vars

\* main over the month files of the flight directory
PkgInit ==
    /\ WxIdle
    /\ FlightIdle
    /\ ScriptIdle
    /\ weatherDir \in WeatherDirs
    /\ monthFile = <<>>
    /\ mi = 1
    /\ flights = <<>>
    /\ fi = 0
    /\ month_data = <<>>
    /\ saved = <<>>
    /\ ppc = "main"

\* main takes the next month file; process_monthly_data reads its flights
ProcessFlightData ==
    /\ ppc = "main"
    /\ mi <= MaxMonthFiles
    /\ \E f \in MonthFiles :
          /\ monthFile' = f
          /\ flights' = process_flight_data(f)
    /\ fi' = 1
    /\ month_data' = <<>>
    /\ ppc' = "flights"
    /\ UNCHANGED <<weatherDir, mi, saved>>
    /\ UNCHANGED <<wxVars, flightVars>>
    /\ UNCHANGED scriptVars

\* one pass of the flight loop of process_monthly_data; an exception other
\* than FileNotFoundError leaves process_monthly_data and is caught by main
MonthFlight ==
    /\ ppc = "flights"
    /\ fi <= Len(flights)
    /\ LET flight == flights[fi]
           weather == process_weather_path(weatherDir, DateOf(flight.departure_time))
       IN  \/ /\ weather.status = "ok"
              /\ month_data' = Append(month_data, MonthRow(flight))
              /\ fi' = fi + 1
              /\ UNCHANGED <<mi, saved, ppc>>
           \/ /\ weather.status = "FileNotFoundError"
              /\ fi' = fi + 1
              /\ UNCHANGED <<month_data, mi, saved, ppc>>
           \/ /\ weather.status \notin {"ok", "FileNotFoundError"}
              /\ saved' = Append(saved, Aborted(weather.status))
              /\ mi' = mi + 1
              /\ ppc' = "main"
              /\ UNCHANGED <<month_data, fi>>
    /\ UNCHANGED <<weatherDir, monthFile, flights>>
    /\ UNCHANGED <<wxVars, flightVars>>
    /\ UNCHANGED scriptVars

\* the flight loop is over: the rows collected are written, if there are any
SaveMonth ==
    /\ ppc = "flights"
    /\ fi > Len(flights)
    /\ saved' = Append(saved, IF month_data # <<>> THEN Saved(month_data)
                                                  ELSE NothingSaved)
    /\ mi' = mi + 1
    /\ ppc' = "main"
    /\ UNCHANGED <<weatherDir, monthFile, flights, fi, month_data>>
    /\ UNCHANGED <<wxVars, flightVars>>
    /\ UNCHANGED scriptVars

PkgNext == ProcessFlightData \/ MonthFlight \/ SaveMonth

PkgSpec == PkgInit /\ [][PkgNext]_vars

\* the script before the first row of the month file is read
ScriptInit ==
    /\ WxIdle
    /\ FlightIdle
    /\ PkgIdle
    /\ sdir \in ScriptDirs
    /\ sflights = <<>>
    /\ nread = 0
    /\ spc = "read"
    /\ sfi = 0
    /\ sflight = NotAppended
    /\ today = NoInstant
    /\ todayWeather = NoSnapshot
    /\ tomorrow = NoInstant
    /\ tomorrowWeather = NoSnapshot
    /\ out = <<>>
    /\ calls = {}

\* where control goes when getWeData does not return a WeData
Ended(we) == IF we.status = "SystemExit" THEN "quit" ELSE "crash"

\* one row of the month file, lines 146-351: the row is left out, or its
\* flight is appended, the header is written, and the window is set to the
\* day of the first flight of the list before the pass over the list starts
ReadRow ==
    /\ spc = "read"
    /\ nread < MaxScriptRows
    /\ nread' = nread + 1
    /\ calls' = {}
    /\ \E r \in ScriptRows :
          LET body == ScriptFlight(r)
              appended == Append(sflights, body.new)
              t0 == appended[1].depT
              w0 == getWeDataOf(sdir, t0)
              t1 == ShiftDay(t0)
              w1 == getWeDataOf(sdir, t1)
          IN  IF body.exc = "NeverEnds"
                  THEN /\ spc' = "hang"
                       /\ UNCHANGED <<sflights, sfi, today, todayWeather,
                                      tomorrow, tomorrowWeather, out>>
              ELSE IF body.exc # ""
                  THEN UNCHANGED <<sflights, spc, sfi, today, todayWeather,
                                   tomorrow, tomorrowWeather, out>>
              ELSE /\ sflights' = appended
                   /\ out' = Append(out, HeaderRow)
                   /\ today' = t0
                   /\ IF w0.we.status # "ok"
                          THEN /\ spc' = Ended(w0.we)
                               /\ UNCHANGED <<sfi, todayWeather, tomorrow,
                                              tomorrowWeather>>
                      ELSE /\ todayWeather' = w0
                           /\ tomorrow' = t1
                           /\ IF w1.we.status # "ok"
                                  THEN /\ spc' = Ended(w1.we)
                                       /\ UNCHANGED <<sfi, tomorrowWeather>>
                                  ELSE /\ tomorrowWeather' = w1
                                       /\ sfi' = 1
                                       /\ spc' = "match"
    /\ UNCHANGED <<sdir, sflight>>
    /\ UNCHANGED <<wxVars, flightVars, pkgVars>>

\* one pass of the loop over flights, lines 352-385
MatchFlight ==
    /\ spc = "match"
    /\ sfi <= Len(sflights)
    /\ LET flight == sflights[sfi]
           advance == flight.depT.day # today.day
           t0 == IF advance THEN tomorrow ELSE today
           w0 == IF advance THEN tomorrowWeather ELSE todayWeather
           t1 == IF advance THEN ShiftDay(t0) ELSE tomorrow
           w1 == IF advance THEN getWeDataOf(sdir, t1) ELSE tomorrowWeather
           depw == Lookup("dep", flight.orig, flight.depT, w0)
           arrw == IF flight.arrT.day # t0.day
                       THEN Lookup("arr", flight.dest, flight.arrT, w1)
                       ELSE Lookup("arr", flight.dest, flight.arrT, w0)
           arrsnap == IF flight.arrT.day # t0.day THEN w1 ELSE w0
           continue == IF sfi + 1 > Len(sflights) THEN "read" ELSE "match"
       IN  /\ sflight' = flight
           /\ today' = t0
           /\ todayWeather' = w0
           /\ tomorrow' = t1
           /\ IF w1.we.status # "ok"
                  THEN /\ spc' = Ended(w1.we)
                       /\ calls' = {}
                       /\ UNCHANGED <<tomorrowWeather, sfi, out>>
              ELSE /\ tomorrowWeather' = w1
                   /\ IF depw.res.kind = "raise"
                          THEN /\ spc' = "crash"
                               /\ calls' = {depw}
                               /\ UNCHANGED <<sfi, out>>
                      ELSE IF arrw.res.kind = "raise"
                          THEN /\ spc' = "crash"
                               /\ calls' = {depw, arrw}
                               /\ UNCHANGED <<sfi, out>>
                      ELSE IF depw.res.kind # "obs" \/ arrw.res.kind # "obs"
                          THEN /\ calls' = {depw, arrw}
                               /\ sfi' = sfi + 1
                               /\ spc' = continue
                               /\ UNCHANGED out
                      ELSE LET divs == DivLoop(flight, 0, t0, w0, w1,
                                               << ObsOf(depw, w0).all,
                                                  ObsOf(arrw, arrsnap).all >>,
                                               {depw, arrw})
                           IN  /\ calls' = divs.calls
                               /\ IF divs.exc # ""
                                      THEN /\ spc' = "crash"
                                           /\ UNCHANGED <<sfi, out>>
                                      ELSE /\ out' = Append(out,
                                                DataRow(flight.all, divs.fullLine))
                                           /\ sfi' = sfi + 1
                                           /\ spc' = continue
    /\ UNCHANGED <<sdir, sflights, nread>>
    /\ UNCHANGED <<wxVars, flightVars, pkgVars>>

ScriptNext == ReadRow \/ MatchFlight

ScriptSpec == ScriptInit /\ [][ScriptNext]_vars

-----------------------------------------------------------------------------
(* Vocabulary of the properties *)

Done == res.kind # "none"

Built == wd.status = "ok"

Target == MinuteOfDay(query.inTime)

\* positions (0-based) of the observations of a station in the snapshot
PositionsOf(place) ==
    {i \in 0..(Len(wd.data) - 1) : PyGet(wd.data, i).station = place}

StationReportsAt(place, m) ==
    \E i \in PositionsOf(place) : MinuteOfDay(PyGet(wd.data, i).time) = m

\* positions (0-based) of the observations at or after minute-of-day m
AtOrAfter(m) ==
    {i \in 0..(Len(wd.data) - 1) : MinuteOfDay(PyGet(wd.data, i).time) >= m}

FirstAtOrAfter(m) == CHOOSE i \in AtOrAfter(m) : \A j \in AtOrAfter(m) : i <= j

Timestamps == {wd.data[i].time : i \in 1..Len(wd.data)}

HasMalformed(rows) == \E i \in 1..Len(rows) : ~Parses(rows[i].time)

\* the position (0-based) of the first observation carrying timestamp t
FirstWith(t) ==
    CHOOSE i \in 0..(Len(wd.data) - 1) :
        /\ PyGet(wd.data, i).time = t
        /\ \A j \in 0..(i - 1) : PyGet(wd.data, j).time # t

-----------------------------------------------------------------------------
(* Properties *)

\* C1: find returns NotFound, or an observation of the requested station
\* whose time is not later than the target instant.
Thm_C1_StationAndNotLater ==
    Done =>
        \/ res.kind = "NotFound"
        \/ /\ res.kind = "obs"
           /\ PyInRange(wd.data, res.pos)
           /\ PyGet(wd.data, res.pos).station = query.place
           /\ TimeKey(PyGet(wd.data, res.pos).time) <= TimeKey(query.inTime)

\* C1 witness: find has answered a query for a station that has one report
\* at or before the target and another one after it.
Wit_C1 ==
    /\ Done
    /\ \E i \in PositionsOf(query.place) :
          TimeKey(PyGet(wd.data, i).time) <= TimeKey(query.inTime)
    /\ \E j \in PositionsOf(query.place) :
          TimeKey(PyGet(wd.data, j).time) > TimeKey(query.inTime)

\* C2: when the target minute holds no report of the station (and the target
\* is not minute 0), find goes on to probe target-1, target+1, target-2, ...,
\* every offset taken from the original target minute.
Cex_C2_AlternatingProbes ==
    (Done /\ Target >= 1 /\ ~StationReportsAt(query.place, Target)) =>
        /\ Len(res.probes) >= 2
        /\ \A k \in 1..(Len(res.probes) - 1) :
              res.probes[k + 1] =
                  Target + (IF k % 2 = 1 THEN 0 - ((k + 1) \div 2) ELSE k \div 2)

\* C3: a station whose only report of the day is at minute 10 is found from
\* target minute 15 and from target minute 3.
Cex_C3_WideningFinds ==
    (/\ Done
     /\ Cardinality(PositionsOf(query.place)) = 1
     /\ StationReportsAt(query.place, 10)
     /\ Target \in {3, 15}) =>
        /\ res.kind = "obs"
        /\ PyInRange(wd.data, res.pos)
        /\ PyGet(wd.data, res.pos).station = query.place
        /\ MinuteOfDay(PyGet(wd.data, res.pos).time) = 10

\* C4: find at target minute 0, with no report of the station at minute 0,
\* answers NotFound and never reads time_index at a negative minute.
Thm_C4_NoNegativeProbe ==
    (Done /\ Target = 0 /\ ~StationReportsAt(query.place, 0)) =>
        /\ res.kind = "NotFound"
        /\ \A k \in 1..Len(res.probes) : res.probes[k] >= 0

\* C4 witness: a query at minute 0 for a station that reports only later in
\* the day has been answered.
Wit_C4 ==
    /\ Done
    /\ Target = 0
    /\ ~StationReportsAt(query.place, 0)
    /\ PositionsOf(query.place) # {}
    /\ res.probes = <<0>>

\* C5: find never ends with an exception: its outcome is an observation or
\* NotFound.
Thm_C5_NoException ==
    Done => res.kind \in {"obs", "NotFound"}

\* C5 witness: find has answered a query whose minute lies outside the range
\* of time_index, on a day with reports of the station.
Wit_C5 ==
    /\ Done
    /\ ~PyInRange(wd.index, Target)
    /\ PositionsOf(query.place) # {}
    /\ res.kind = "NotFound"

\* C6: find ends after at least one and at most len(time_index) probes, and
\* a station that never reports on the day leads to NotFound.
Thm_C6_BoundedSearch ==
    Done =>
        /\ Len(res.probes) >= 1
        /\ Len(res.probes) <= Len(wd.index)
        /\ (PositionsOf(query.place) = {} => res.kind = "NotFound")

\* C6 witness: find has answered a query, at a minute other than 0, for a
\* station that never reports on a day on which another station does.
Wit_C6 ==
    /\ Done
    /\ Target >= 1
    /\ wd.data # <<>>
    /\ PositionsOf(query.place) = {}
    /\ res.kind = "NotFound"

\* C7: a built time_index has exactly 1440 entries, each a position in the
\* observation list or the past-end value.
Cex_C7_FullDayIndex ==
    Built =>
        /\ Len(wd.index) = 24 * 60
        /\ \A k \in 1..Len(wd.index) :
              0 <= wd.index[k] /\ wd.index[k] <= Len(wd.data)

\* C8: time_index[m] is the position of the first observation whose
\* minute-of-day is at or after m, for every minute m that has one.
Cex_C8_IndexByMinute ==
    Built =>
        \A m \in 0..(MaxHour * 60 + MaxMinute) :
            AtOrAfter(m) # {} =>
                /\ PyInRange(wd.index, m)
                /\ PyGet(wd.index, m) = FirstAtOrAfter(m)

\* C9: the built index holds exactly one entry per distinct timestamp of the
\* input, and every entry is the position of the first observation carrying
\* a timestamp.
Cex_C9_OneEntryPerTimestamp ==
    Built =>
        /\ Len(wd.index) = Cardinality(Timestamps)
        /\ \A k \in 1..Len(wd.index) :
              \E t \in Timestamps : wd.index[k] = FirstWith(t)

\* C10: building from a file without rows succeeds, with no observations and
\* no index entry that refers to an observation.
Cex_C10_EmptyFile ==
    (file = <<>> /\ wd.status # "none") =>
        /\ wd.status = "ok"
        /\ wd.data = <<>>
        /\ \A k \in 1..Len(wd.index) :
              0 <= wd.index[k] /\ wd.index[k] < Len(wd.data)

\* C19: process_weather_file on a file with a record whose timestamp does
\* not parse raises and returns no WeatherData: no observation and no index
\* of that day is available.
Thm_C19_MalformedFailsWhole ==
    (wd.builder = "process_weather_file" /\ HasMalformed(file)) =>
        /\ wd.status = "ParserError"
        /\ wd.data = <<>>
        /\ wd.index = <<>>

\* C19 witness: process_weather_file has run on a file whose first record
\* parses and whose later record does not.
Wit_C19 ==
    /\ wd.builder = "process_weather_file"
    /\ Len(file) >= 2
    /\ Parses(file[1].time)
    /\ HasMalformed(file)
    /\ wd.status = "ParserError"

-----------------------------------------------------------------------------
(* Properties of _create_flight_from_row *)

Created == created.kind # "none"

\* a leg of the row that _process_diversions can turn into a Diversion
GoodLeg(leg) ==
    /\ leg.airport # NaNText
    /\ leg.airport \in airport_timezones
    /\ leg.wheels_on # NaN /\ leg.wheels_off # NaN
    /\ ClockParses(leg.wheels_on) /\ ClockParses(leg.wheels_off)

\* the legs _process_diversions looks at
LegsRead == 1..Min(row.DivAirportLandings, 5)

NumberOfGoodLegs == Cardinality({i \in LegsRead : GoodLeg(row.Div[i])})

ClocksFine ==
    /\ row.CRSDepTime # NaN /\ ClockParses(row.CRSDepTime)
    /\ row.CRSArrTime # NaN /\ ClockParses(row.CRSArrTime)

\* C18: converting a time for an airport the timezone table does not hold
\* raises and returns no time; a row whose origin or destination is unknown
\* yields no Flight; a leg whose airport is unknown is left out of the
\* diversions while the Flight and its other legs are kept.
Thm_C18_UnknownAirport ==
    Created =>
        /\ \A a \in {row.Origin, row.Dest} :
              a \notin airport_timezones =>
                  /\ convert_to_utc(a, ParseClock(row.FlightDate, 100)).exc = "ValueError"
                  /\ convert_to_utc(a, ParseClock(row.FlightDate, 100)).time = NoInstant
                  /\ created.kind = "None"
        /\ (/\ ClocksFine
            /\ ~IntRaises(row.DivAirportLandings)
            /\ {row.Origin, row.Dest} \subseteq airport_timezones) =>
              /\ created.kind = "Flight"
              /\ \A k \in 1..Len(created.diversions) :
                    created.diversions[k].airport \in airport_timezones
              /\ Len(created.diversions) = NumberOfGoodLegs

\* C18 witness: a Flight has been produced from a row with two legs, one at
\* an unknown airport, and holds the other leg.
Wit_C18 ==
    /\ created.kind = "Flight"
    /\ row.DivAirportLandings = 2
    /\ \E i \in LegsRead : row.Div[i].airport = "X"
    /\ Len(created.diversions) = 1

\* the minute a clock time on a date falls on, counted as InstKey counts
ClockOnDate(date, time) ==
    (DateOrd(date) * 24 + (time \div 100)) * 60 + (time % 100)

\* an instant with an hour and a minute of the day
WellFormed(t) == t.hour \in 0..23 /\ t.minute \in 0..59

\* C20: a Flight has arrival_time >= departure_time; its departure is the
\* departure clock time on the flight date; an arrival clock time that on
\* the flight date falls before the departure is moved forward by one day,
\* any other is left where it falls on the flight date.
Thm_C20_ArrivalNotBeforeDeparture ==
    created.kind = "Flight" =>
        /\ InstKey(created.arrival_time) >= InstKey(created.departure_time)
        /\ WellFormed(created.departure_time) /\ WellFormed(created.arrival_time)
        /\ InstKey(created.departure_time) = ClockOnDate(row.FlightDate, row.CRSDepTime)
        /\ InstKey(created.arrival_time) =
              IF ClockOnDate(row.FlightDate, row.CRSArrTime)
                     < ClockOnDate(row.FlightDate, row.CRSDepTime)
                  THEN ClockOnDate(row.FlightDate, row.CRSArrTime) + 24 * 60
                  ELSE ClockOnDate(row.FlightDate, row.CRSArrTime)

\* C20 witness: a Flight whose arrival clock time is earlier than its
\* departure clock time, on the last day of a month.
Wit_C20 ==
    /\ created.kind = "Flight"
    /\ row.CRSArrTime < row.CRSDepTime
    /\ row.FlightDate.day = MonthLen
    /\ created.arrival_time.day = 1

\* the airport, wheels-on and wheels-off columns of a leg all hold a value
Present(leg) ==
    /\ ~isna_text(leg.airport)
    /\ ~isna_number(leg.wheels_on)
    /\ ~isna_number(leg.wheels_off)

\* the minute of the day of a clock column (hour 24 is midnight)
MinuteOfCell(time) == ((time \div 100) * 60 + (time % 100)) % (24 * 60)

\* the Diversion was made from the leg: its airport, and the clock times of
\* its wheels-on and wheels-off
MadeFrom(diversion, leg) ==
    /\ diversion.airport = leg.airport
    /\ MinuteOfDay(diversion.arrival_time) = MinuteOfCell(leg.wheels_on)
    /\ MinuteOfDay(diversion.departure_time) = MinuteOfCell(leg.wheels_off)

\* C21: the diversions of a Flight number at most min(DivAirportLandings, 5)
\* and at most num_diversions, which is the raw DivAirportLandings; they are
\* made from legs of increasing number among the legs read, each with its
\* airport, wheels-on and wheels-off present.
Thm_C21_DiversionList ==
    created.kind = "Flight" =>
        /\ created.num_diversions = row.DivAirportLandings
        /\ Len(created.diversions) <= Min(row.DivAirportLandings, 5)
        /\ Len(created.diversions) <= created.num_diversions
        /\ \E f \in [1..Len(created.diversions) -> LegsRead] :
              /\ \A j, k \in 1..Len(created.diversions) : j < k => f[j] < f[k]
              /\ \A k \in 1..Len(created.diversions) :
                    /\ Present(row.Div[f[k]])
                    /\ MadeFrom(created.diversions[k], row.Div[f[k]])

\* C21 witness: a Flight from a row with DivAirportLandings 9 and a blank
\* second leg: three diversions, made from legs 1, 3 and 5.
Wit_C21 ==
    /\ created.kind = "Flight"
    /\ row.DivAirportLandings = 9
    /\ row.Div[2] = BlankLeg
    /\ Len(created.diversions) = 3
    /\ MadeFrom(created.diversions[1], row.Div[1])
    /\ MadeFrom(created.diversions[3], row.Div[5])

-----------------------------------------------------------------------------
(* Properties of main and process_monthly_data *)

\* the weather directory has a file for the date that parses and holds a
\* report of the station
StationReports(dir, station, date) ==
    /\ date \in DOMAIN dir
    /\ dir[date] = "ok"
    /\ \E i \in DOMAIN WeatherRows(dir[date], date) :
          WeatherRows(dir[date], date)[i].station = station

\* a row of a month file that has nothing wrong with it: not a duplicate, it
\* makes a Flight, and the weather file of its departure day is well formed
SoundRow(dir, r) ==
    /\ r.Duplicate # "Y"
    /\ _create_flight_from_row(r).kind = "Flight"
    /\ dir[r.FlightDate] = "ok"

\* C11: a flight is in the output only if each of its lookups returned an
\* observation; in particular its origin reports on its departure day and its
\* destination reports on its arrival day.
Cex_C11_NoPartialRows ==
    \A k \in DOMAIN month_data :
        /\ StationReports(weatherDir, month_data[k].origin,
                          DateOf(month_data[k].departure_time))
        /\ StationReports(weatherDir, month_data[k].destination,
                          DateOf(month_data[k].arrival_time))

\* C12: every output row is the flight's fields followed by the departure
\* weather, the arrival weather, and an (arrival, departure) pair of weather
\* per diversion.
Cex_C12_RowLayout ==
    \A k \in DOMAIN month_data :
        /\ Len(month_data[k].weather) = 2 + 2 * month_data[k].num_diversions
        /\ month_data[k].weather[1].station = month_data[k].origin
        /\ month_data[k].weather[2].station = month_data[k].destination

\* C16: when main is done with a month file, every sound row of it has its
\* row in what the month left in the output directory, whatever was wrong
\* with the other rows.
Cex_C16_ErrorsIsolated ==
    (ppc = "main" /\ mi > 1) =>
        \A i \in DOMAIN monthFile :
            SoundRow(weatherDir, monthFile[i]) =>
                \E k \in DOMAIN saved[mi - 1].rows :
                    saved[mi - 1].rows[k] =
                        MonthRow(_create_flight_from_row(monthFile[i]))


-----------------------------------------------------------------------------
(* Properties of the script's matching pass *)

\* the flight the loop variable of line 352 is bound to
Handled == sflight

\* the last step went through a pass of the flight loop without ending the
\* run
Passed ==
    /\ spc \in {"read", "match"}
    /\ calls # {}

\* the file of the day of the instant holds a report of the station at the
\* minute of the instant
ReportsAtMinute(dir, station, t) ==
    /\ DateOf(t) \in DOMAIN dir
    /\ dir[DateOf(t)] = "ok"
    /\ \E i \in DOMAIN WeatherRows("ok", DateOf(t)) :
          /\ WeatherRows("ok", DateOf(t))[i].station = station
          /\ WeatherRows("ok", DateOf(t))[i].time = Stamp(DateOf(t), t.hour, t.minute)

\* C13: for every diversion leg of a flight whose departure and arrival have
\* a report to find, the arrival lookup and the departure lookup are made
\* with the airport of the leg (the DivNAirport column) as the station.
Cex_C13_DiversionStation ==
    (/\ Passed
     /\ ReportsAtMinute(sdir, Handled.orig, Handled.depT)
     /\ ReportsAtMinute(sdir, Handled.dest, Handled.arrT)) =>
        \A k \in DOMAIN Handled.divs :
            /\ \E c \in calls : /\ c.event = "divarr"
                                /\ c.instant = Handled.divs[k].arr
                                /\ c.station = Handled.all.Div[k].airport
            /\ \E c \in calls : /\ c.event = "divdep"
                                /\ c.instant = Handled.divs[k].dep
                                /\ c.station = Handled.all.Div[k].airport

\* C14: the WeData passed to findData was built from the file of the
\* calendar day of the instant passed with it.
Cex_C14_SnapshotCoversEvent ==
    \A c \in calls : c.snapshot = DateOf(c.instant)

\* C15: the day of today never decreases from one step to the next.
Cex_C15_WindowForward ==
    [][(today # NoInstant /\ today' # NoInstant) =>
           DateOrd(DateOf(today')) >= DateOrd(DateOf(today))]_vars

\* C17: a weather file that is absent does not end the run.
Cex_C17_MissingFileSkips ==
    spc # "quit"

====
